---- MODULE Spec2Model ----
(***************************************************************************)
(* Pension tools of the finance agent (src/finanace_tools.py): the lookup  *)
(* _get_pension_details_internal, the fraud evaluation                     *)
(* _check_fraud_internal and the recurring-deposit upsert                  *)
(* _schedule_recurring_deposit_internal over the SQLite tables             *)
(* pension_details, scheduled_deposits, transactions, fraud_indicators,    *)
(* and the connections the calls open.                                     *)
(*                                                                         *)
(* Time is counted in ticks, TicksPerDay of them to a calendar day.  The   *)
(* process clock (datetime.now()) and the database clock                   *)
(* (CURRENT_TIMESTAMP, UTC) are taken to be in the same zone.  Amounts are *)
(* whole currency units; |a - E| / E > n/d is computed as d*|a-E| > n*E,   *)
(* which is the same comparison for E > 0.                                 *)
(***************************************************************************)
EXTENDS Integers, Sequences, FiniteSets, TLC

(***************************************************************************)
(* Bounds of the model.                                                    *)
(***************************************************************************)
TicksPerDay == 2
MaxTime == 1
MaxTxns == 3
MaxIndicators == 2
VelocityMaxTime == 2
VelocityMaxTxns == 5
VelocityMaxIndicators == 5
RulesMaxTime == 1
RulesMaxTxns == 1
RulesMaxIndicators == 3
WeekMaxTime == 15
WeekMaxIndicators == 4
ArgumentsMaxTime == 2
ArgumentsMaxTxns == 2
ArgumentsMaxIndicators == 2
AccumulateMaxTime == 1
AccumulateMaxTxns == 4
AccumulateMaxIndicators == 7
AppendMaxIndicators == 4
ConcurrentMaxTxns == 2
ConcurrentMaxIndicators == 2
ScoreMaxTime == 1
ScoreMaxTxns == 6
ScoreMaxIndicators == 9

(***************************************************************************)
(* Constants of the program.                                               *)
(***************************************************************************)
HighDeviationNum == 1      \* amount_deviation > 0.5  (1/2)
HighDeviationDen == 2
MediumDeviationNum == 1    \* amount_deviation > 0.2  (1/5)
MediumDeviationDen == 5
LowAmountFloor == 100      \* amount < 100
VelocityWindowDays == 1    \* timedelta(days=1)
VelocityLimit == 3         \* recent_count > 3
HistoryWindowDays == 7     \* timedelta(days=7)
HistoryMinimum == 2        \* len(existing_indicators) >= 2
HistoryLimit == 3          \* LIMIT 3
MonthlyDays == 30          \* timedelta(days=30)
WeeklyDays == 7            \* timedelta(days=7)

VARIABLES
    now,                \* the clock, in ticks
    pension_details,    \* table pension_details (reference data)
    scheduled_deposits, \* table scheduled_deposits, in rowid order
    transactions,       \* table transactions, in rowid order
    fraud_indicators,   \* table fraud_indicators, in rowid order
    result,             \* the last tool call: its arguments and what it returned
    inflight            \* scheduleRecurringDeposit calls that run statement by statement

vars == <<now, pension_details, scheduled_deposits, transactions,
          fraud_indicators, result, inflight>>

tables == <<pension_details, scheduled_deposits, transactions, fraud_indicators>>

(***************************************************************************)
(* Reference data and the arguments the tools are called with.             *)
(***************************************************************************)
Customers == {"C001", "C002"}
UnknownCustomer == "C999"
UnknownPension == "P999"
None == "None"
Amounts == {59, 99, 100, 120, 180, 181}
FailPoints == {"none", "schedule", "transaction", "commit"}

PensionRow(p, c, e, s) ==
    [pension_id |-> p, customer_id |-> c, monthly_amount |-> e, status |-> s]

\* A database that already holds data is used as it is (init_database
\* returns early): one customer with two accounts, one with a single account
\* that carries the seeded amount.
PensionTable(e4) ==
    << PensionRow("P001", "C001", 120, "active"),
       PensionRow("P002", "C002", 2500, "active"),
       PensionRow("P004", "C001", e4, "active") >>

Abs(x) == IF x < 0 THEN -x ELSE x
Date(t) == t \div TicksPerDay
Days(n) == n * TicksPerDay
Min(a, b) == IF a < b THEN a ELSE b

(***************************************************************************)
(* get_db_connection: init_database opens a connection of its own, then    *)
(* the caller is handed a second one, which it closes in its finally       *)
(* block.                                                                  *)
(***************************************************************************)
\* init_database: when the customers table has rows it returns before its
\* conn.close(); "unclosed" is a connection on which close() was not called
\* and which is left to the finalizer of the object
InitDatabase == IF Customers # {} THEN "unclosed" ELSE "closed"

\* the connections opened by n calls of get_db_connection(), in the state
\* the call leaves them in: init_database's, then the caller's
Connections(n) ==
    [ i \in 1..(2 * n) |-> IF i % 2 = 1 THEN InitDatabase ELSE "closed" ]

(***************************************************************************)
(* _get_pension_details_internal: the customer and the first active        *)
(* pension row of the customer.                                            *)
(***************************************************************************)
\* a variant without the status filter
PensionsOfAnyStatus(pd, customer_id) ==
    SelectSeq(pd, LAMBDA r : r.customer_id = customer_id)

\* SELECT ... FROM pension_details WHERE customer_id = ? AND status = 'active'
ActivePensions(pd, customer_id) ==
    SelectSeq(pd, LAMBDA r : r.customer_id = customer_id /\ r.status = "active")

GetPensionDetailsInternal(pd, customer_id) ==
    IF customer_id \notin Customers
    THEN [success |-> FALSE, error |-> "Customer not found",
          pension_id |-> None, monthly_amount |-> <<>>]
    ELSE IF ActivePensions(pd, customer_id) = <<>>
    THEN [success |-> FALSE, error |-> "No active pension found",
          pension_id |-> None, monthly_amount |-> <<>>]
    ELSE [success |-> TRUE, error |-> "",
          pension_id |-> ActivePensions(pd, customer_id)[1].pension_id,
          monthly_amount |-> <<ActivePensions(pd, customer_id)[1].monthly_amount>>]

(***************************************************************************)
(* _check_fraud_internal.                                                  *)
(***************************************************************************)
Indicator(type, description, severity) ==
    [type |-> type, description |-> description, severity |-> severity]

NoVerdict ==
    [present |-> FALSE, success |-> FALSE, error |-> "", is_fraudulent |-> FALSE,
     severity |-> "low", fraud_indicators |-> <<>>, fraud_score |-> 0,
     recommendation |-> ""]

InvalidAccountVerdict ==
    [present |-> TRUE, success |-> FALSE, error |-> "Pension details not found",
     is_fraudulent |-> TRUE, severity |-> "high",
     fraud_indicators |-> << Indicator("invalid_account", <<>>, "high") >>,
     fraud_score |-> 1, recommendation |-> "REJECT"]

\* a variant that looks the account up by pension_id alone
PensionDataOfAnyCustomer(pd, customer_id, pension_id) ==
    SelectSeq(pd, LAMBDA r : r.pension_id = pension_id)

\* SELECT monthly_amount FROM pension_details WHERE pension_id = ? AND customer_id = ?
PensionData(pd, customer_id, pension_id) ==
    SelectSeq(pd, LAMBDA r : r.pension_id = pension_id /\ r.customer_id = customer_id)

\* a variant that compares with >= instead of >
DeviationAtLeast(amount, expected, num, den) ==
    expected > 0 /\ den * Abs(amount - expected) >= num * expected

\* amount_deviation > num/den, for amount_deviation = abs(amount - expected) / expected
DeviationAbove(amount, expected, num, den) ==
    expected > 0 /\ den * Abs(amount - expected) > num * expected

\* Check 1: the indicator of the deviation rule, if any
DeviationCheck(amount, expected) ==
    IF DeviationAbove(amount, expected, HighDeviationNum, HighDeviationDen)
    THEN << Indicator("unusual_amount", <<amount, expected>>, "high") >>
    ELSE IF DeviationAbove(amount, expected, MediumDeviationNum, MediumDeviationDen)
    THEN << Indicator("unusual_amount", <<amount, expected>>, "medium") >>
    ELSE << >>

\* a variant whose floor includes the amount 100 itself
LowAmountCheckInclusive(amount) ==
    IF amount <= LowAmountFloor
    THEN << Indicator("suspicious_low_amount", <<amount>>, "high") >>
    ELSE << >>

\* Check 2
LowAmountCheck(amount) ==
    IF amount < LowAmountFloor
    THEN << Indicator("suspicious_low_amount", <<amount>>, "high") >>
    ELSE << >>

\* a variant that counts the recent transactions of every customer
RecentCountAllCustomers(txns, customer_id, t) ==
    Cardinality({ i \in DOMAIN txns :
        txns[i].transaction_date > t - Days(VelocityWindowDays) })

\* Check 3: transaction_date > (now - 1 day), both written by isoformat()
RecentCount(txns, customer_id, t) ==
    Cardinality({ i \in DOMAIN txns :
        /\ txns[i].customer_id = customer_id
        /\ txns[i].transaction_date > t - Days(VelocityWindowDays) })

\* a variant that lets one more transaction through
VelocityCheckAboveFour(recent_count) ==
    IF recent_count > VelocityLimit + 1
    THEN << Indicator("velocity_check", <<recent_count>>, "high") >>
    ELSE << >>

\* Check 3: if recent_count > 3
VelocityCheck(recent_count) ==
    IF recent_count > VelocityLimit
    THEN << Indicator("velocity_check", <<recent_count>>, "high") >>
    ELSE << >>

\* detected_at > seven_days_ago as SQLite compares the two texts: detected_at
\* is CURRENT_TIMESTAMP, 'YYYY-MM-DD HH:MM:SS', and seven_days_ago is
\* isoformat(), 'YYYY-MM-DDTHH:MM:SS.ffffff'.  The texts are ordered by their
\* dates; on equal dates ' ' sorts before 'T', so detected_at is the smaller.
TimestampAfterIso(detected_at, iso) == Date(detected_at) > Date(iso)

\* Check 4: the rows the query can return
RecentHighIndicators(inds, customer_id, t) ==
    { i \in DOMAIN inds :
        /\ inds[i].customer_id = customer_id
        /\ TimestampAfterIso(inds[i].detected_at, t - Days(HistoryWindowDays))
        /\ inds[i].severity = "high" }

\* ORDER BY detected_at DESC LIMIT 3: every result the query may return, as
\* row numbers (rows with equal detected_at come in an unspecified order)
HistorySelections(inds, customer_id, t) ==
    LET el == RecentHighIndicators(inds, customer_id, t)
        k == Min(HistoryLimit, Cardinality(el))
    IN { s \in [1..k -> el] :
           /\ \A i, j \in 1..k :
                i < j => /\ s[i] # s[j]
                         /\ inds[s[i]].detected_at >= inds[s[j]].detected_at
           /\ \A e \in el :
                (\A i \in 1..k : s[i] # e)
                    => \A i \in 1..k : inds[e].detected_at <= inds[s[i]].detected_at }

HistoryCheck(inds, existing) ==
    IF Len(existing) >= HistoryMinimum
    THEN [ i \in 1..Len(existing) |->
             Indicator(inds[existing[i]].indicator_type,
                       inds[existing[i]].description,
                       inds[existing[i]].severity) ]
    ELSE << >>

\* Check 5 reads the active schedule of the pair and does nothing with it
ExistingSchedule(scheds, customer_id, pension_id) ==
    SelectSeq(scheds, LAMBDA r : /\ r.customer_id = customer_id
                                 /\ r.pension_id = pension_id
                                 /\ r.status = "active")

\* a variant that reports an existing schedule as an indicator
ScheduleCheckReportsDuplicate(existing_schedule) ==
    IF existing_schedule # << >>
    THEN << Indicator("duplicate_schedule", << >>, "medium") >>
    ELSE << >>

\* Check 5: if existing_schedule: pass
ScheduleCheck(existing_schedule) == << >>

\* a variant that stops at the first rule that fires
IndicatorsOfFirstRule(c1, c2, c3, c4, c5) ==
    IF c1 # << >> THEN c1
    ELSE IF c2 # << >> THEN c2
    ELSE IF c3 # << >> THEN c3
    ELSE IF c4 # << >> THEN c4
    ELSE c5

\* fraud_indicators: every check appends to the one list
Indicators(c1, c2, c3, c4, c5) == c1 \o c2 \o c3 \o c4 \o c5

\* a variant in which every indicator flags the request
IsFraudulentOnAnyIndicator(c1, c2, c3, c4) ==
    c1 # << >> \/ c2 # << >> \/ c3 # << >> \/ c4 # << >>

\* is_fraudulent as the four checks set it
IsFraudulent(c1, c2, c3, c4) ==
    \/ (c1 # << >> /\ c1[1].severity = "high")
    \/ c2 # << >>
    \/ c3 # << >>
    \/ c4 # << >>

\* a variant that reports the severity of the worst indicator
SeverityOfWorstIndicator(c1, c2, c3, c4) ==
    IF \/ (c1 # << >> /\ c1[1].severity = "high")
       \/ c2 # << >>
       \/ c3 # << >>
       \/ c4 # << >>
    THEN "high"
    ELSE IF c1 # << >> THEN c1[1].severity ELSE "low"

\* severity: "low" until a check that flags the request sets it to "high"
Severity(c1, c2, c3, c4) ==
    IF \/ (c1 # << >> /\ c1[1].severity = "high")
       \/ c2 # << >>
       \/ c3 # << >>
       \/ c4 # << >>
    THEN "high" ELSE "low"

\* the rows logged for a flagged check (detected_at is CURRENT_TIMESTAMP)
LoggedRows(inds, customer_id, indicators, t) ==
    [ i \in 1..Len(indicators) |->
        [indicator_id |-> Len(inds) + i, customer_id |-> customer_id,
         indicator_type |-> indicators[i].type,
         description |-> indicators[i].description,
         severity |-> indicators[i].severity, detected_at |-> t] ]

\* a variant that logs the indicators of every verdict
RowsToLogAlways(is_fraudulent, rows) == rows

\* if is_fraudulent: only a flagged check logs its indicators
RowsToLog(is_fraudulent, rows) == IF is_fraudulent THEN rows ELSE << >>

\* a variant that keeps only the rows of the latest rejection
InsertIndicatorsKeepingLatest(inds, logged) ==
    IF logged = << >> THEN inds ELSE logged

\* INSERT INTO fraud_indicators, one row per indicator, and the commit
InsertIndicators(inds, logged) == inds \o logged

\* The call: what it raises or returns, and the rows it commits to
\* fraud_indicators.  existing is the result of the history query.
CheckFraudInternal(pd, scheds, txns, inds, t, customer_id, pension_id, amount, existing) ==
    LET pension_data == PensionData(pd, customer_id, pension_id) IN
    IF pension_data = << >>
    THEN [raised |-> "", verdict |-> InvalidAccountVerdict, logged |-> << >>]
    ELSE
    LET expected_amount == pension_data[1].monthly_amount IN
    IF expected_amount = 0
    THEN [raised |-> "ZeroDivisionError", verdict |-> NoVerdict, logged |-> << >>]
    ELSE
    LET c1 == DeviationCheck(amount, expected_amount)
        c2 == LowAmountCheck(amount)
        c3 == VelocityCheck(RecentCount(txns, customer_id, t))
        c4 == HistoryCheck(inds, existing)
        c5 == ScheduleCheck(ExistingSchedule(scheds, customer_id, pension_id))
        indicators == Indicators(c1, c2, c3, c4, c5)
        is_fraudulent == IsFraudulent(c1, c2, c3, c4)
    IN [raised |-> "",
        verdict |-> [present |-> TRUE, success |-> TRUE, error |-> "",
                     is_fraudulent |-> is_fraudulent,
                     severity |-> Severity(c1, c2, c3, c4),
                     fraud_indicators |-> indicators,
                     fraud_score |-> Len(indicators),
                     recommendation |-> IF is_fraudulent THEN "REJECT" ELSE "APPROVE"],
        logged |-> RowsToLog(is_fraudulent,
                             LoggedRows(inds, customer_id, indicators, t))]

(***************************************************************************)
(* _schedule_recurring_deposit_internal.                                   *)
(***************************************************************************)
\* The value of the last call: arguments after resolution, then the result.
\* amount is <<>> for None and <<a>> for a number; connections are the
\* connections the call opened, as it leaves them.
CallResult(tool, customer_id, pension_id, amount, frequency) ==
    [tool |-> tool, customer_id |-> customer_id, pension_id |-> pension_id,
     amount |-> amount, frequency |-> frequency, at |-> now,
     raised |-> "", success |-> FALSE, error |-> "", fraud_check |-> NoVerdict,
     action |-> "", schedule_id |-> 0, transaction_id |-> 0,
     next_deposit_date |-> 0, connections |-> << >>, count |-> 0]

NoCall == [CallResult("none", None, None, << >>, "") EXCEPT !.at = 0]

\* a variant that takes 7 days for every frequency but "monthly"
NextDepositWeeklyUnlessMonthly(frequency, t) ==
    IF frequency = "monthly" THEN Date(t + Days(MonthlyDays))
    ELSE Date(t + Days(WeeklyDays))

\* next_deposit: (datetime.now() + timedelta(days=...)).date()
NextDeposit(frequency, t) ==
    IF frequency = "monthly" THEN Date(t + Days(MonthlyDays))
    ELSE IF frequency = "weekly" THEN Date(t + Days(WeeklyDays))
    ELSE Date(t + Days(MonthlyDays))

\* SELECT ... FROM customers c JOIN pension_details p ... WHERE c.customer_id = ? AND p.pension_id = ?
CustomerAndPension(pd, customer_id, pension_id) ==
    SelectSeq(pd, LAMBDA r : /\ r.customer_id \in Customers
                             /\ r.customer_id = customer_id
                             /\ r.pension_id = pension_id)

\* a variant that leaves the frequency column out of the SET list
UpdateScheduleWithoutFrequency(scheds, schedule_id, amount, frequency, next_deposit) ==
    [ i \in DOMAIN scheds |->
        IF scheds[i].schedule_id = schedule_id
        THEN [scheds[i] EXCEPT !.amount = amount, !.next_deposit_date = next_deposit]
        ELSE scheds[i] ]

\* UPDATE scheduled_deposits SET amount, frequency, next_deposit_date WHERE schedule_id = ?
UpdateSchedule(scheds, schedule_id, amount, frequency, next_deposit) ==
    [ i \in DOMAIN scheds |->
        IF scheds[i].schedule_id = schedule_id
        THEN [scheds[i] EXCEPT !.amount = amount, !.frequency = frequency,
                               !.next_deposit_date = next_deposit]
        ELSE scheds[i] ]

\* INSERT INTO scheduled_deposits ... 'active'
InsertSchedule(scheds, schedule_id, customer_id, pension_id, amount, frequency, next_deposit) ==
    Append(scheds, [schedule_id |-> schedule_id, customer_id |-> customer_id,
                    pension_id |-> pension_id, amount |-> amount,
                    frequency |-> frequency, next_deposit_date |-> next_deposit,
                    status |-> "active"])

\* a variant that never looks for the existing row
UpsertScheduleAlwaysInserts(scheds, schedule_id, customer_id, pension_id, amount, frequency, next_deposit) ==
    [rows |-> InsertSchedule(scheds, schedule_id, customer_id, pension_id,
                             amount, frequency, next_deposit),
     schedule_id |-> schedule_id, action |-> "created"]

\* The upsert: the existing active row of the pair is updated, else a row is inserted
UpsertSchedule(scheds, schedule_id, customer_id, pension_id, amount, frequency, next_deposit) ==
    LET existing_schedule == ExistingSchedule(scheds, customer_id, pension_id) IN
    IF existing_schedule # << >>
    THEN [rows |-> UpdateSchedule(scheds, existing_schedule[1].schedule_id,
                                  amount, frequency, next_deposit),
          schedule_id |-> existing_schedule[1].schedule_id, action |-> "updated"]
    ELSE [rows |-> InsertSchedule(scheds, schedule_id, customer_id, pension_id,
                                  amount, frequency, next_deposit),
          schedule_id |-> schedule_id, action |-> "created"]

\* a variant that stores the day of the call as scheduled_date
InsertTransactionDatedToday(txns, transaction_id, customer_id, pension_id, amount, t, next_deposit) ==
    Append(txns, [transaction_id |-> transaction_id, customer_id |-> customer_id,
                  pension_id |-> pension_id, amount |-> amount,
                  transaction_date |-> t, transaction_type |-> "deposit",
                  status |-> "scheduled", is_fraudulent |-> 0,
                  scheduled_date |-> Date(t)])

\* INSERT INTO transactions ... 'deposit', 'scheduled', 0
InsertTransaction(txns, transaction_id, customer_id, pension_id, amount, t, next_deposit) ==
    Append(txns, [transaction_id |-> transaction_id, customer_id |-> customer_id,
                  pension_id |-> pension_id, amount |-> amount,
                  transaction_date |-> t, transaction_type |-> "deposit",
                  status |-> "scheduled", is_fraudulent |-> 0,
                  scheduled_date |-> next_deposit])

\* a variant in which the statements of the call are not undone
RollbackKeepsWrites(stored, written) == written

\* conn.rollback(): the stored table, whatever the connection had written
Rollback(stored, written) == stored

\* The try block of the call, for a request the fraud check let through.
\* fail names the statement that raises ("none": none does).  The result
\* holds the two tables as the call leaves them and the returned fields.
ScheduleWrites(pd, scheds, txns, t, customer_id, pension_id, amount, frequency, fail) ==
    IF CustomerAndPension(pd, customer_id, pension_id) = << >>
    THEN [scheds |-> scheds, txns |-> txns, success |-> FALSE,
          error |-> "Customer or pension account not found",
          action |-> "", schedule_id |-> 0, transaction_id |-> 0,
          next_deposit_date |-> 0]
    ELSE
    LET schedule_id == Len(scheds) + 1
        next_deposit == NextDeposit(frequency, t)
        upsert == UpsertSchedule(scheds, schedule_id, customer_id, pension_id,
                                 amount, frequency, next_deposit)
        transaction_id == Len(txns) + 1
        inserted == InsertTransaction(txns, transaction_id, customer_id,
                                      pension_id, amount, t, next_deposit)
        failed(sw, tw) ==
            [scheds |-> Rollback(scheds, sw), txns |-> Rollback(txns, tw),
             success |-> FALSE, error |-> fail, action |-> "",
             schedule_id |-> 0, transaction_id |-> 0, next_deposit_date |-> 0]
    IN  IF fail = "schedule" THEN failed(scheds, txns)
        ELSE IF fail = "transaction" THEN failed(upsert.rows, txns)
        ELSE IF fail = "commit" THEN failed(upsert.rows, inserted)
        ELSE [scheds |-> upsert.rows, txns |-> inserted, success |-> TRUE,
              error |-> "", action |-> upsert.action,
              schedule_id |-> upsert.schedule_id,
              transaction_id |-> transaction_id,
              next_deposit_date |-> next_deposit]

(***************************************************************************)
(* Calls of scheduleRecurringDeposit that overlap: each has a connection   *)
(* of its own and runs its statements one at a time.                       *)
(***************************************************************************)
Procs == {"a", "b"}

\* a call that is not running
Idle ==
    [pc |-> "idle", customer_id |-> None, pension_id |-> None, amount |-> << >>,
     frequency |-> "", lookups |-> 0, existing_schedule |-> << >>,
     scheds |-> << >>, txns |-> << >>, action |-> "", schedule_id |-> 0,
     transaction_id |-> 0, next_deposit_date |-> 0]

NoCalls == [p \in Procs |-> Idle]

\* if existing_schedule: UPDATE ... else: INSERT ..., for the row the call selected
WriteSchedule(scheds, existing_schedule, schedule_id, customer_id, pension_id, amount, frequency, next_deposit) ==
    IF existing_schedule # << >>
    THEN [rows |-> UpdateSchedule(scheds, existing_schedule[1].schedule_id,
                                  amount, frequency, next_deposit),
          schedule_id |-> existing_schedule[1].schedule_id, action |-> "updated"]
    ELSE [rows |-> InsertSchedule(scheds, schedule_id, customer_id, pension_id,
                                  amount, frequency, next_deposit),
          schedule_id |-> schedule_id, action |-> "created"]

\* another connection is inside a write transaction (it has written and not committed)
WriteLocked(p) == \E q \in Procs \ {p} : inflight[q].pc = "written"

(***************************************************************************)
(* The tools as actions.  maxTxns and maxInd cap the two tables that only  *)
(* grow.                                                                   *)
(***************************************************************************)
\* getPensionDetails(customer_id)
GetPensionDetails(customer_id) ==
    LET r == GetPensionDetailsInternal(pension_details, customer_id) IN
    /\ result' = [CallResult("getPensionDetails", customer_id, r.pension_id,
                             r.monthly_amount, "")
                    EXCEPT !.success = r.success, !.error = r.error,
                           !.connections = Connections(1)]
    /\ UNCHANGED <<inflight, now, pension_details, scheduled_deposits, transactions,
                   fraud_indicators>>

\* _get_scheduled_deposits_internal: the rows of the SELECT ... JOIN customers,
\* of one customer or, without a customer_id, of all
ListedSchedules(scheds, customer_id) ==
    SelectSeq(scheds, LAMBDA r : /\ r.customer_id \in Customers
                                 /\ customer_id \in {None, ""} \/ r.customer_id = customer_id)

\* getScheduledDeposits(customer_id)
GetScheduledDeposits(customer_id) ==
    /\ result' = [CallResult("getScheduledDeposits", customer_id, None, << >>, "")
                    EXCEPT !.success = TRUE,
                           !.count = Len(ListedSchedules(scheduled_deposits, customer_id)),
                           !.connections = Connections(1)]
    /\ UNCHANGED <<inflight, now, pension_details, scheduled_deposits, transactions,
                   fraud_indicators>>

\* checkFraudStatus(customer_id, pension_id, amount)
CheckFraudStatus(customer_id, pension_id, amount, maxInd) ==
    \E existing \in HistorySelections(fraud_indicators, customer_id, now) :
        LET fc == CheckFraudInternal(pension_details, scheduled_deposits,
                                     transactions, fraud_indicators, now,
                                     customer_id, pension_id, amount, existing)
        IN  /\ Len(fraud_indicators) + Len(fc.logged) <= maxInd
            /\ fraud_indicators' = InsertIndicators(fraud_indicators, fc.logged)
            /\ result' = [CallResult("checkFraudStatus", customer_id, pension_id,
                                     <<amount>>, "")
                            EXCEPT !.raised = fc.raised,
                                   !.success = fc.verdict.success,
                                   !.error = fc.verdict.error,
                                   !.fraud_check = fc.verdict,
                                   !.connections = Connections(1)]
            /\ UNCHANGED <<inflight, now, pension_details, scheduled_deposits, transactions>>

\* a variant that reads a key the verdict does not have and gets the default
FraudDetectedWrongKey(fraud_check) == FALSE

\* if fraud_check.get("is_fraudulent", False): the request is rejected
FraudDetected(fraud_check) == fraud_check.is_fraudulent

\* scheduleRecurringDeposit(customer_id, pension_id, amount, frequency);
\* pension_arg is None and amount_arg is <<>> when the argument is omitted
ScheduleRecurringDeposit(customer_id, pension_arg, amount_arg, frequency, fails, maxTxns, maxInd) ==
    LET call(p, a) == CallResult("scheduleRecurringDeposit", customer_id, p, a, frequency)
        defaulted == pension_arg = None \/ amount_arg = << >>
        lookups == IF defaulted THEN 1 ELSE 0
        pension_details_result == GetPensionDetailsInternal(pension_details, customer_id)
    IN
    IF defaulted /\ ~pension_details_result.success
    THEN /\ result' = [call(pension_arg, amount_arg)
                         EXCEPT !.error = pension_details_result.error,
                                !.connections = Connections(1)]
         /\ UNCHANGED <<inflight, now, pension_details, scheduled_deposits, transactions,
                        fraud_indicators>>
    ELSE
    LET pension_id == IF pension_arg = None
                      THEN pension_details_result.pension_id ELSE pension_arg
        amount == IF amount_arg = << >>
                  THEN pension_details_result.monthly_amount[1] ELSE amount_arg[1]
    IN
    \E existing \in HistorySelections(fraud_indicators, customer_id, now) :
        LET fc == CheckFraudInternal(pension_details, scheduled_deposits,
                                     transactions, fraud_indicators, now,
                                     customer_id, pension_id, amount, existing)
        IN
        IF fc.raised # ""
        THEN /\ result' = [call(pension_id, <<amount>>)
                             EXCEPT !.raised = fc.raised,
                                    !.connections = Connections(lookups + 1)]
             /\ UNCHANGED <<inflight, now, pension_details, scheduled_deposits, transactions,
                            fraud_indicators>>
        ELSE IF FraudDetected(fc.verdict)
        THEN /\ Len(fraud_indicators) + Len(fc.logged) <= maxInd
             /\ fraud_indicators' = InsertIndicators(fraud_indicators, fc.logged)
             /\ result' = [call(pension_id, <<amount>>)
                             EXCEPT !.error = "Transaction rejected due to fraud detection",
                                    !.fraud_check = fc.verdict,
                                    !.connections = Connections(lookups + 1)]
             /\ UNCHANGED <<inflight, now, pension_details, scheduled_deposits, transactions>>
        ELSE \E fail \in fails :
             LET w == ScheduleWrites(pension_details, scheduled_deposits,
                                     transactions, now, customer_id, pension_id,
                                     amount, frequency, fail)
             IN
             /\ Len(w.txns) <= maxTxns
             /\ scheduled_deposits' = w.scheds
             /\ transactions' = w.txns
             /\ result' = [call(pension_id, <<amount>>)
                             EXCEPT !.success = w.success, !.error = w.error,
                                    !.action = w.action,
                                    !.schedule_id = w.schedule_id,
                                    !.transaction_id = w.transaction_id,
                                    !.next_deposit_date = w.next_deposit_date,
                                    !.connections = Connections(lookups + 2)]
             /\ UNCHANGED <<inflight, now, pension_details, fraud_indicators>>

\* the clock advances between calls
Tick(maxTime) ==
    /\ now < maxTime
    /\ now' = now + 1
    /\ UNCHANGED <<pension_details, scheduled_deposits, transactions,
                   fraud_indicators, result, inflight>>

EmptyTables ==
    /\ now = 0
    /\ scheduled_deposits = << >>
    /\ transactions = << >>
    /\ fraud_indicators = << >>
    /\ result = NoCall
    /\ inflight = NoCalls

Init ==
    /\ EmptyTables
    /\ pension_details = PensionTable(180)

\* The tools called with the given arguments: checks are <<customer_id,
\* pension_id, amount>>, schedules are <<customer_id, pension_id, amount,
\* frequency>> (pension_id None and amount <<>> when left out)
NextFor(checks, schedules, fails, maxTime, maxTxns, maxInd) ==
    \/ \E c \in checks : CheckFraudStatus(c[1], c[2], c[3], maxInd)
    \/ \E s \in schedules :
          ScheduleRecurringDeposit(s[1], s[2], s[3], s[4], fails, maxTxns, maxInd)
    \/ Tick(maxTime)

(***************************************************************************)
(* Spec: the scheduling upsert, its rejections and its failures, for one   *)
(* customer with two accounts.                                             *)
(***************************************************************************)
Checks ==
    { <<"C001", "P001", 120>>, <<"C001", "P004", 59>> }

Schedules ==
    { <<"C001", "P001", <<120>>, "monthly">>,
      <<"C001", "P001", <<180>>, "weekly">>,
      <<"C001", "P004", <<120>>, "daily">>,
      <<"C001", None, << >>, "weekly">>,
      <<"C001", "P001", <<59>>, "monthly">>,
      <<"C001", "P002", <<120>>, "monthly">>,
      <<UnknownCustomer, None, <<120>>, "monthly">> }

Next == NextFor(Checks, Schedules, FailPoints, MaxTime, MaxTxns, MaxIndicators)

Spec == Init /\ [][Next]_vars

(***************************************************************************)
(* SpecVelocity: two customers scheduling at their expected amounts until  *)
(* the velocity rule fires; the second account of C001 is only checked.    *)
(***************************************************************************)
VelocityChecks ==
    { <<"C001", "P001", 120>>, <<"C001", "P001", 100>>,
      <<"C001", "P004", 180>>, <<"C002", "P002", 2500>> }

VelocitySchedules ==
    { <<"C001", None, << >>, "monthly">>,
      <<"C002", "P002", <<2500>>, "monthly">> }

NextVelocity ==
    NextFor(VelocityChecks, VelocitySchedules, {"none"},
            VelocityMaxTime, VelocityMaxTxns, VelocityMaxIndicators)

SpecVelocity == Init /\ [][NextVelocity]_vars

(***************************************************************************)
(* SpecRules: the amount rules at their thresholds, for expected amounts   *)
(* 120, 180 and 2500, and for an account whose expected amount is 0.       *)
(***************************************************************************)
InitRules ==
    /\ EmptyTables
    /\ pension_details \in { PensionTable(0), PensionTable(180) }

RulesChecks ==
    { <<"C001", "P001", a>> : a \in Amounts }
    \cup { <<"C001", "P004", 99>>, <<"C002", "P002", 1250>>, <<"C002", "P002", 3751>> }

RulesSchedules ==
    { <<"C001", "P001", <<181>>, "monthly">>,
      <<"C001", None, << >>, "monthly">>,
      <<"C001", "P004", << >>, "monthly">> }

NextRules ==
    NextFor(RulesChecks, RulesSchedules, {"none"},
            RulesMaxTime, RulesMaxTxns, RulesMaxIndicators)

SpecRules == InitRules /\ [][NextRules]_vars

(***************************************************************************)
(* SpecWeek: rejected requests and the checks of the two weeks after them. *)
(***************************************************************************)
WeekChecks ==
    { <<"C001", "P001", 59>>, <<"C001", "P001", 120>>,
      <<"C001", "P004", 180>>, <<"C002", "P002", 2500>> }

WeekSchedules ==
    { <<"C001", "P001", <<59>>, "monthly">> }

NextWeek ==
    NextFor(WeekChecks, WeekSchedules, {"none"},
            WeekMaxTime, MaxTxns, WeekMaxIndicators)

SpecWeek == Init /\ [][NextWeek]_vars

(***************************************************************************)
(* SpecArguments: the three tools called with omitted arguments, unknown   *)
(* customers, unknown accounts and the frequencies, over two days; in one  *)
(* of the two databases the first account of C001 and the account of C002  *)
(* are closed.                                                             *)
(***************************************************************************)
ClosedAccounts ==
    << PensionRow("P001", "C001", 120, "inactive"),
       PensionRow("P002", "C002", 2500, "inactive"),
       PensionRow("P004", "C001", 180, "active") >>

InitArguments ==
    /\ EmptyTables
    /\ pension_details \in { PensionTable(180), ClosedAccounts }

ArgumentsLookups == Customers \cup { UnknownCustomer }

ArgumentsChecks ==
    { <<"C001", "P001", 120>>, <<"C001", UnknownPension, 120>>,
      <<UnknownCustomer, "P001", 120>>, <<"C001", "P002", 2500>> }

ArgumentsSchedules ==
    { <<"C001", None, << >>, "monthly">>,
      <<"C001", None, <<59>>, "weekly">>,
      <<"C001", "P004", << >>, "daily">>,
      <<"C002", None, << >>, "weekly">>,
      <<UnknownCustomer, None, << >>, "monthly">>,
      <<UnknownCustomer, "P001", <<120>>, "monthly">>,
      <<"C001", UnknownPension, <<120>>, "monthly">> }

NextArguments ==
    \/ NextFor(ArgumentsChecks, ArgumentsSchedules, {"none"},
               ArgumentsMaxTime, ArgumentsMaxTxns, ArgumentsMaxIndicators)
    \/ \E c \in ArgumentsLookups : GetPensionDetails(c)

SpecArguments == InitArguments /\ [][NextArguments]_vars

(***************************************************************************)
(* SpecAccumulate: one customer scheduling at the expected amount and      *)
(* checking a low and a normal amount, until every rule has fired and the  *)
(* indicators logged for it have been read back.                           *)
(***************************************************************************)
AccumulateChecks ==
    { <<"C001", "P001", 59>>, <<"C001", "P001", 120>> }

AccumulateSchedules ==
    { <<"C001", None, << >>, "monthly">> }

NextAccumulate ==
    NextFor(AccumulateChecks, AccumulateSchedules, {"none"},
            AccumulateMaxTime, AccumulateMaxTxns, AccumulateMaxIndicators)

SpecAccumulate == Init /\ [][NextAccumulate]_vars

(***************************************************************************)
(* SpecAppend: the four tools of the pension agent on one customer, with   *)
(* rejections, failures of the writes, look-ups and listings in between.   *)
(***************************************************************************)
AppendChecks ==
    { <<"C001", "P001", 59>>, <<"C001", "P001", 120>>, <<"C001", "P004", 100>> }

AppendSchedules ==
    { <<"C001", None, << >>, "monthly">>, <<"C001", "P001", <<59>>, "weekly">> }

AppendListings == { None, "C001", UnknownCustomer }

NextAppend ==
    \/ NextFor(AppendChecks, AppendSchedules, FailPoints,
               MaxTime, MaxTxns, AppendMaxIndicators)
    \/ GetPensionDetails("C001")
    \/ \E c \in AppendListings : GetScheduledDeposits(c)

SpecAppend == Init /\ [][NextAppend]_vars

(***************************************************************************)
(* SpecConcurrent: two scheduleRecurringDeposit calls at a time, their     *)
(* statements interleaved.  The resolution of omitted arguments and the    *)
(* fraud check are calls with connections of their own and are one step;   *)
(* then come the SELECT of the existing schedule, the writes, which open   *)
(* the write transaction, and the commit.                                  *)
(***************************************************************************)
\* lines 540-597: up to the verification of customer and account
BeginSchedule(p, customer_id, pension_arg, amount_arg, frequency) ==
    LET call(pid, a) == CallResult("scheduleRecurringDeposit", customer_id, pid, a, frequency)
        defaulted == pension_arg = None \/ amount_arg = << >>
        lookups == IF defaulted THEN 1 ELSE 0
        pension_details_result == GetPensionDetailsInternal(pension_details, customer_id)
    IN
    /\ inflight[p].pc = "idle"
    /\ UNCHANGED <<now, pension_details, scheduled_deposits, transactions>>
    /\ IF defaulted /\ ~pension_details_result.success
       THEN /\ result' = [call(pension_arg, amount_arg)
                            EXCEPT !.error = pension_details_result.error,
                                   !.connections = Connections(1)]
            /\ UNCHANGED <<fraud_indicators, inflight>>
       ELSE
       LET pension_id == IF pension_arg = None
                         THEN pension_details_result.pension_id ELSE pension_arg
           amount == IF amount_arg = << >>
                     THEN pension_details_result.monthly_amount[1] ELSE amount_arg[1]
       IN
       \E existing \in HistorySelections(fraud_indicators, customer_id, now) :
           LET fc == CheckFraudInternal(pension_details, scheduled_deposits,
                                        transactions, fraud_indicators, now,
                                        customer_id, pension_id, amount, existing)
           IN
           IF fc.raised # ""
           THEN /\ result' = [call(pension_id, <<amount>>)
                                EXCEPT !.raised = fc.raised,
                                       !.connections = Connections(lookups + 1)]
                /\ UNCHANGED <<fraud_indicators, inflight>>
           ELSE IF FraudDetected(fc.verdict)
           THEN /\ Len(fraud_indicators) + Len(fc.logged) <= ConcurrentMaxIndicators
                /\ fraud_indicators' = InsertIndicators(fraud_indicators, fc.logged)
                /\ result' = [call(pension_id, <<amount>>)
                                EXCEPT !.error = "Transaction rejected due to fraud detection",
                                       !.fraud_check = fc.verdict,
                                       !.connections = Connections(lookups + 1)]
                /\ UNCHANGED inflight
           ELSE IF CustomerAndPension(pension_details, customer_id, pension_id) = << >>
           THEN /\ result' = [call(pension_id, <<amount>>)
                                EXCEPT !.error = "Customer or pension account not found",
                                       !.connections = Connections(lookups + 2)]
                /\ UNCHANGED <<fraud_indicators, inflight>>
           ELSE /\ inflight' = [inflight EXCEPT ![p] =
                                  [Idle EXCEPT !.pc = "connected",
                                               !.customer_id = customer_id,
                                               !.pension_id = pension_id,
                                               !.amount = <<amount>>,
                                               !.frequency = frequency,
                                               !.lookups = lookups]]
                /\ UNCHANGED <<fraud_indicators, result>>

\* lines 611-617: SELECT schedule_id, status ... AND status = 'active'
SelectSchedule(p) ==
    /\ inflight[p].pc = "connected"
    /\ inflight' = [inflight EXCEPT
                      ![p].pc = "selected",
                      ![p].existing_schedule =
                          ExistingSchedule(scheduled_deposits, inflight[p].customer_id,
                                           inflight[p].pension_id)]
    /\ UNCHANGED <<now, tables, result>>

\* lines 619-647: the UPDATE or INSERT of the schedule and the INSERT of the
\* transaction, in the write transaction the first of them opens; the rows
\* are seen by the other connection only after the commit
WriteRows(p) ==
    LET c == inflight[p]
        next_deposit == NextDeposit(c.frequency, now)
        written == WriteSchedule(scheduled_deposits, c.existing_schedule,
                                 Len(scheduled_deposits) + 1, c.customer_id,
                                 c.pension_id, c.amount[1], c.frequency, next_deposit)
        transaction_id == Len(transactions) + 1
    IN
    /\ c.pc = "selected"
    /\ ~WriteLocked(p)
    /\ Len(transactions) < ConcurrentMaxTxns
    /\ inflight' = [inflight EXCEPT
                      ![p].pc = "written",
                      ![p].scheds = written.rows,
                      ![p].txns = InsertTransaction(transactions, transaction_id,
                                                    c.customer_id, c.pension_id,
                                                    c.amount[1], now, next_deposit),
                      ![p].action = written.action,
                      ![p].schedule_id = written.schedule_id,
                      ![p].transaction_id = transaction_id,
                      ![p].next_deposit_date = next_deposit]
    /\ UNCHANGED <<now, tables, result>>

\* the first write finds the database locked by the other connection and
\* gives up after its timeout: except -> rollback -> error result
WriteRefused(p) ==
    LET c == inflight[p] IN
    /\ c.pc = "selected"
    /\ WriteLocked(p)
    /\ result' = [CallResult("scheduleRecurringDeposit", c.customer_id, c.pension_id,
                             c.amount, c.frequency)
                    EXCEPT !.error = "database is locked",
                           !.connections = Connections(c.lookups + 2)]
    /\ inflight' = [inflight EXCEPT ![p] = Idle]
    /\ UNCHANGED <<now, tables>>

\* lines 649-666: conn.commit() and the success result
CommitSchedule(p) ==
    LET c == inflight[p] IN
    /\ c.pc = "written"
    /\ scheduled_deposits' = c.scheds
    /\ transactions' = c.txns
    /\ result' = [CallResult("scheduleRecurringDeposit", c.customer_id, c.pension_id,
                             c.amount, c.frequency)
                    EXCEPT !.success = TRUE, !.action = c.action,
                           !.schedule_id = c.schedule_id,
                           !.transaction_id = c.transaction_id,
                           !.next_deposit_date = c.next_deposit_date,
                           !.connections = Connections(c.lookups + 2)]
    /\ inflight' = [inflight EXCEPT ![p] = Idle]
    /\ UNCHANGED <<now, pension_details, fraud_indicators>>

ConcurrentSchedules ==
    { <<"C001", "P001", <<120>>, "monthly">>,
      <<"C001", "P001", <<180>>, "weekly">>,
      <<"C001", None, << >>, "monthly">>,
      <<"C001", "P004", <<59>>, "monthly">>,
      <<"C002", "P002", <<2500>>, "monthly">>,
      <<UnknownCustomer, None, << >>, "monthly">> }

NextConcurrent ==
    \E p \in Procs :
        \/ \E s \in ConcurrentSchedules : BeginSchedule(p, s[1], s[2], s[3], s[4])
        \/ SelectSchedule(p)
        \/ WriteRows(p)
        \/ WriteRefused(p)
        \/ CommitSchedule(p)

SpecConcurrent == Init /\ [][NextConcurrent]_vars

(***************************************************************************)
(* Steps of a behaviour: a step that leaves the clock alone is a tool call *)
(* and result' is what the call returned.                                  *)
(***************************************************************************)
ScheduleStep == now' = now /\ result'.tool = "scheduleRecurringDeposit"
CheckStep == now' = now /\ result'.tool = "checkFraudStatus"
ScheduleSucceeded == ScheduleStep /\ result'.success

\* the fraud evaluation of a request, made in the current state, flags it
Flagged(customer_id, pension_id, amount) ==
    \E existing \in HistorySelections(fraud_indicators, customer_id, now) :
        CheckFraudInternal(pension_details, scheduled_deposits, transactions,
                           fraud_indicators, now, customer_id, pension_id,
                           amount, existing).verdict.is_fraudulent

ActiveRows(scheds, customer_id, pension_id) ==
    { i \in DOMAIN scheds : /\ scheds[i].customer_id = customer_id
                            /\ scheds[i].pension_id = pension_id
                            /\ scheds[i].status = "active" }

(***************************************************************************)
(* C1: after any sequence of scheduleRecurringDeposit and checkFraudStatus *)
(* calls from a database without schedules, scheduled_deposits holds at    *)
(* most one active row for every (customer_id, pension_id) pair.           *)
(***************************************************************************)
C1_AtMostOneActiveSchedule ==
    \A i, j \in DOMAIN scheduled_deposits :
        ( /\ scheduled_deposits[i].status = "active"
          /\ scheduled_deposits[j].status = "active"
          /\ scheduled_deposits[i].customer_id = scheduled_deposits[j].customer_id
          /\ scheduled_deposits[i].pension_id = scheduled_deposits[j].pension_id )
        => i = j

\* both accounts of the customer are scheduled and the last call updated one
C1_Witness ==
    /\ Len(scheduled_deposits) = 2
    /\ Len(transactions) = 3
    /\ result.tool = "scheduleRecurringDeposit"
    /\ result.action = "updated"

(***************************************************************************)
(* C2: a scheduleRecurringDeposit call whose fraud evaluation flags the    *)
(* request returns success=false with the verdict under fraud_check, and   *)
(* leaves scheduled_deposits and transactions as they were.                *)
(***************************************************************************)
C2_RejectedScheduleWritesNothing ==
    [][ ( /\ ScheduleStep
          /\ result'.pension_id # None
          /\ result'.amount # << >>
          /\ Flagged(result'.customer_id, result'.pension_id, result'.amount[1]) )
        => /\ result'.success = FALSE
           /\ result'.fraud_check.present
           /\ result'.fraud_check.is_fraudulent
           /\ result'.fraud_check.recommendation = "REJECT"
           /\ scheduled_deposits' = scheduled_deposits
           /\ transactions' = transactions ]_vars

\* a rejected request for an account that already has a schedule and a transaction
C2_Witness ==
    /\ result.tool = "scheduleRecurringDeposit"
    /\ result.fraud_check.present
    /\ result.fraud_check.success
    /\ result.fraud_check.recommendation = "REJECT"
    /\ ~result.success
    /\ ActiveRows(scheduled_deposits, result.customer_id, result.pension_id) # {}
    /\ Len(transactions) = 1
    /\ Len(fraud_indicators) = 2

(***************************************************************************)
(* C3: of two successive non-fraudulent scheduleRecurringDeposit calls for *)
(* the same (customer, account) the first reports 'created' and the second *)
(* 'updated'; the second keeps the row count and the schedule_id, and      *)
(* leaves exactly one active row, with the amount, frequency and           *)
(* next_deposit_date of the second call.                                   *)
(***************************************************************************)
C3_SecondCallUpdatesInPlace ==
    [][ ScheduleSucceeded =>
          LET before == ActiveRows(scheduled_deposits, result'.customer_id, result'.pension_id)
              after == ActiveRows(scheduled_deposits', result'.customer_id, result'.pension_id)
          IN  /\ before = {} =>
                    /\ result'.action = "created"
                    /\ Len(scheduled_deposits') = Len(scheduled_deposits) + 1
              /\ before # {} =>
                    /\ result'.action = "updated"
                    /\ Len(scheduled_deposits') = Len(scheduled_deposits)
                    /\ \A i \in before : scheduled_deposits[i].schedule_id = result'.schedule_id
              /\ ( /\ result.tool = "scheduleRecurringDeposit"
                   /\ result.success
                   /\ result.customer_id = result'.customer_id
                   /\ result.pension_id = result'.pension_id )
                 => /\ result'.action = "updated"
                    /\ result'.schedule_id = result.schedule_id
              /\ Cardinality(after) = 1
              /\ \A i \in after :
                    /\ scheduled_deposits'[i].schedule_id = result'.schedule_id
                    /\ scheduled_deposits'[i].amount = result'.amount[1]
                    /\ scheduled_deposits'[i].frequency = result'.frequency
                    /\ scheduled_deposits'[i].next_deposit_date = result'.next_deposit_date
                    /\ scheduled_deposits'[i].next_deposit_date = NextDeposit(result'.frequency, now)
      ]_vars

\* the second call, a day later with another amount and frequency, has updated the row
C3_Witness ==
    /\ result.tool = "scheduleRecurringDeposit"
    /\ result.action = "updated"
    /\ Len(scheduled_deposits) = 1
    /\ Len(transactions) = 2
    /\ transactions[1].amount = 120
    /\ scheduled_deposits[1].amount = 180
    /\ scheduled_deposits[1].frequency = "weekly"
    /\ scheduled_deposits[1].next_deposit_date = Date(now) + WeeklyDays

(***************************************************************************)
(* C4: when the schedule upsert, the transaction insert or the commit of a *)
(* scheduleRecurringDeposit call fails, the call returns success=false     *)
(* with the error and leaves scheduled_deposits and transactions as they   *)
(* were (an upsert made before the failure is discarded); success=true is  *)
(* returned only when both writes were committed.                          *)
(***************************************************************************)
C4_FailureRollsBackBothWrites ==
    [][ /\ ( ScheduleStep /\ result'.error \in FailPoints \ {"none"} )
           => /\ result'.success = FALSE
              /\ scheduled_deposits' = scheduled_deposits
              /\ transactions' = transactions
        /\ ScheduleSucceeded
           => /\ Len(transactions') = Len(transactions) + 1
              /\ transactions'[Len(transactions')].transaction_id = result'.transaction_id
              /\ \E i \in DOMAIN scheduled_deposits' :
                    /\ scheduled_deposits'[i].schedule_id = result'.schedule_id
                    /\ scheduled_deposits'[i].customer_id = result'.customer_id
                    /\ scheduled_deposits'[i].pension_id = result'.pension_id
                    /\ scheduled_deposits'[i].amount = result'.amount[1]
      ]_vars

\* the transaction insert failed after the update of an existing schedule:
\* the row still holds the amount and frequency of the first call
C4_Witness ==
    /\ result.tool = "scheduleRecurringDeposit"
    /\ result.error = "transaction"
    /\ result.pension_id = "P001"
    /\ result.amount = <<180>>
    /\ Len(scheduled_deposits) = 1
    /\ scheduled_deposits[1].pension_id = "P001"
    /\ scheduled_deposits[1].amount = 120
    /\ scheduled_deposits[1].frequency = "monthly"
    /\ Len(transactions) = 1

(***************************************************************************)
(* C5: every scheduleRecurringDeposit call that returns success=true       *)
(* appends exactly one transactions row, for the customer and account of   *)
(* the call, with the call's amount, status 'scheduled', is_fraudulent 0   *)
(* and a scheduled_date equal to the next_deposit_date of the schedule     *)
(* row, which is later than the transaction_date.                          *)
(***************************************************************************)
C5_SuccessAppendsOneScheduledTransaction ==
    [][ ScheduleSucceeded =>
          LET n == Len(transactions')
              row == transactions'[n]
              after == ActiveRows(scheduled_deposits', result'.customer_id, result'.pension_id)
          IN  /\ n = Len(transactions) + 1
              /\ SubSeq(transactions', 1, n - 1) = transactions
              /\ row.transaction_id = result'.transaction_id
              /\ row.customer_id = result'.customer_id
              /\ row.pension_id = result'.pension_id
              /\ row.amount = result'.amount[1]
              /\ row.status = "scheduled"
              /\ row.is_fraudulent = 0
              /\ row.transaction_date = now
              /\ after # {}
              /\ \A i \in after : scheduled_deposits'[i].next_deposit_date = row.scheduled_date
              /\ Days(row.scheduled_date) > row.transaction_date
      ]_vars

\* a weekly schedule made after the clock has advanced
C5_Witness ==
    /\ result.tool = "scheduleRecurringDeposit"
    /\ result.success
    /\ result.frequency = "weekly"
    /\ Len(transactions) = 2
    /\ transactions[2].transaction_id = result.transaction_id
    /\ transactions[2].transaction_date >= 1
    /\ transactions[2].scheduled_date = result.next_deposit_date

(***************************************************************************)
(* What the claims about the fraud evaluation speak of: the account and    *)
(* the amount of a call, the customer's transactions of the trailing 24    *)
(* hours and high-severity indicators of the trailing 7 days.              *)
(***************************************************************************)
ExpectedAmount(customer_id, pension_id) ==
    PensionData(pension_details, customer_id, pension_id)[1].monthly_amount

AccountExists(customer_id, pension_id) ==
    PensionData(pension_details, customer_id, pension_id) # << >>

TrailingTransactions(customer_id) ==
    { i \in DOMAIN transactions :
        /\ transactions[i].customer_id = customer_id
        /\ transactions[i].transaction_date > now - Days(VelocityWindowDays) }

TrailingHighIndicators(customer_id) ==
    { i \in DOMAIN fraud_indicators :
        /\ fraud_indicators[i].customer_id = customer_id
        /\ fraud_indicators[i].severity = "high"
        /\ fraud_indicators[i].detected_at > now - Days(HistoryWindowDays) }

\* a step in which the fraud evaluation ran for the request held in result'
EvaluationStep ==
    \/ CheckStep
    \/ ScheduleStep /\ result'.pension_id # None /\ result'.amount # << >>

\* the indicator is a row logged for the customer before the call
WasLogged(customer_id, indicator) ==
    \E j \in DOMAIN fraud_indicators :
        /\ fraud_indicators[j].customer_id = customer_id
        /\ fraud_indicators[j].indicator_type = indicator.type
        /\ fraud_indicators[j].description = indicator.description
        /\ fraud_indicators[j].severity = indicator.severity

HasIndicator(verdict, type, description, severity) ==
    \E i \in DOMAIN verdict.fraud_indicators :
        verdict.fraud_indicators[i] = Indicator(type, description, severity)

(***************************************************************************)
(* C6: for a known account with expected amount E, checkFraudStatus with   *)
(* an amount a, |a - E| / E <= 0.2 and a >= 100, returns                   *)
(* is_fraudulent=false and APPROVE when the customer has at most 3         *)
(* transactions in the trailing 24 hours and fewer than 2 high-severity    *)
(* indicators in the trailing 7 days.                                      *)
(***************************************************************************)
C6_NormalAmountApproved ==
    [][ ( /\ CheckStep
          /\ AccountExists(result'.customer_id, result'.pension_id)
          /\ ExpectedAmount(result'.customer_id, result'.pension_id) > 0
          /\ 5 * Abs(result'.amount[1] - ExpectedAmount(result'.customer_id, result'.pension_id))
                <= ExpectedAmount(result'.customer_id, result'.pension_id)
          /\ result'.amount[1] >= 100
          /\ Cardinality(TrailingTransactions(result'.customer_id)) <= 3
          /\ Cardinality(TrailingHighIndicators(result'.customer_id)) < 2 )
        => /\ result'.fraud_check.is_fraudulent = FALSE
           /\ result'.fraud_check.recommendation = "APPROVE" ]_vars

\* an approved check of the amount 100 for a customer who has 3 transactions
\* in the last 24 hours and one high-severity indicator
C6_Witness ==
    /\ result.tool = "checkFraudStatus"
    /\ result.at = now
    /\ result.amount = <<100>>
    /\ result.fraud_check.recommendation = "APPROVE"
    /\ Cardinality(TrailingTransactions(result.customer_id)) = 3
    /\ Cardinality(TrailingHighIndicators(result.customer_id)) = 1

C8_HighDeviationRejected ==
    ( /\ result.tool = "checkFraudStatus"
      /\ AccountExists(result.customer_id, result.pension_id)
      /\ ExpectedAmount(result.customer_id, result.pension_id) > 0 )
    => LET a == result.amount[1]
           E == ExpectedAmount(result.customer_id, result.pension_id)
       IN  /\ 2 * Abs(a - E) > E
              => /\ result.fraud_check.recommendation = "REJECT"
                 /\ HasIndicator(result.fraud_check, "unusual_amount", <<a, E>>, "high")
           /\ 2 * Abs(a - E) = E
              => ~HasIndicator(result.fraud_check, "unusual_amount", <<a, E>>, "high")

\* an amount just above 150% of the seeded expected amount, rejected on the
\* deviation alone
C8_Witness ==
    /\ result.tool = "checkFraudStatus"
    /\ result.pension_id = "P002"
    /\ result.amount = <<3751>>
    /\ result.fraud_check.recommendation = "REJECT"
    /\ result.fraud_check.fraud_indicators
          = << Indicator("unusual_amount", <<3751, 2500>>, "high") >>

(***************************************************************************)
(* C9: when a customer has 4 transactions dated within the trailing 24     *)
(* hours, the next fraud check for the customer (hence the 5th scheduling  *)
(* attempt) yields REJECT with a high-severity 'velocity_check' indicator; *)
(* with 3 the velocity rule does not fire (a 'velocity_check' indicator of *)
(* the verdict is then one that was logged before and is listed again).    *)
(* The count is per customer, over all accounts of the customer.           *)
(***************************************************************************)
C9_VelocityRejectsAfterFour ==
    [][ ( EvaluationStep /\ AccountExists(result'.customer_id, result'.pension_id) )
        => LET n == Cardinality(TrailingTransactions(result'.customer_id)) IN
           /\ n >= 4
              => /\ result'.success = (result'.tool = "checkFraudStatus")
                 /\ result'.fraud_check.recommendation = "REJECT"
                 /\ HasIndicator(result'.fraud_check, "velocity_check", <<n>>, "high")
                 /\ transactions' = transactions
           /\ n <= 3
              => \A i \in DOMAIN result'.fraud_check.fraud_indicators :
                    result'.fraud_check.fraud_indicators[i].type = "velocity_check"
                    => WasLogged(result'.customer_id, result'.fraud_check.fraud_indicators[i]) ]_vars

\* the 5th scheduling attempt of a customer within 24 hours is rejected,
\* while another customer has a transaction of their own
C9_Witness ==
    /\ result.tool = "scheduleRecurringDeposit"
    /\ result.customer_id = "C001"
    /\ result.at = now
    /\ ~result.success
    /\ HasIndicator(result.fraud_check, "velocity_check", <<4>>, "high")
    /\ Cardinality(TrailingTransactions("C001")) = 4
    /\ Cardinality(TrailingTransactions("C002")) = 1

(***************************************************************************)
(* C10: whenever 2 or more high-severity indicators have been logged for a *)
(* customer within the trailing 7 days, every fraud check for the customer *)
(* yields REJECT, whatever the amount and the account.                     *)
(***************************************************************************)
C10_TwoRecentHighIndicatorsReject ==
    [][ ( /\ EvaluationStep
          /\ Cardinality(TrailingHighIndicators(result'.customer_id)) >= 2 )
        => result'.fraud_check.recommendation = "REJECT" ]_vars

(***************************************************************************)
(* C11: whenever the fraud evaluation returns a REJECT verdict, every      *)
(* indicator listed in the verdict is appended as a new fraud_indicators   *)
(* row for the customer, one row per indicator with its type, description  *)
(* and severity; also when the (customer, account) pair is not found.      *)
(***************************************************************************)
C11_RejectLogsEveryIndicator ==
    [][ ( /\ EvaluationStep
          /\ result'.fraud_check.present
          /\ result'.fraud_check.recommendation = "REJECT" )
        => LET list == result'.fraud_check.fraud_indicators
               n == Len(fraud_indicators)
           IN  /\ Len(fraud_indicators') = n + Len(list)
               /\ SubSeq(fraud_indicators', 1, n) = fraud_indicators
               /\ \A i \in DOMAIN list :
                     /\ fraud_indicators'[n + i].customer_id = result'.customer_id
                     /\ fraud_indicators'[n + i].indicator_type = list[i].type
                     /\ fraud_indicators'[n + i].description = list[i].description
                     /\ fraud_indicators'[n + i].severity = list[i].severity ]_vars

\* a step that is a call of one of the three tools
ToolStep ==
    /\ now' = now
    /\ result'.tool \in {"getPensionDetails", "checkFraudStatus", "scheduleRecurringDeposit"}

\* the call held in r named a customer without a customers row, or a
\* pension_id that is not an account of the customer
UnknownArguments(r) ==
    \/ r.customer_id \notin Customers
    \/ /\ r.tool # "getPensionDetails"
       /\ r.pension_id # None
       /\ \A i \in DOMAIN pension_details :
             ~ ( /\ pension_details[i].customer_id = r.customer_id
                 /\ pension_details[i].pension_id = r.pension_id )

(***************************************************************************)
(* C12: a getPensionDetails, checkFraudStatus or scheduleRecurringDeposit  *)
(* call that names an unknown customer or an unknown (customer, account)   *)
(* pair raises nothing, returns success=false with an error message, and   *)
(* leaves scheduled_deposits and transactions as they were.                *)
(***************************************************************************)
C12_UnknownArgumentsAreStructuredErrors ==
    [][ ( ToolStep /\ UnknownArguments(result') )
        => /\ result'.raised = ""
           /\ result'.success = FALSE
           /\ result'.error # ""
           /\ scheduled_deposits' = scheduled_deposits
           /\ transactions' = transactions ]_vars

\* a scheduling call for an account of another customer, refused after
\* schedules and transactions have been written for the two known customers
C12_Witness ==
    /\ result.tool = "scheduleRecurringDeposit"
    /\ result.customer_id = UnknownCustomer
    /\ result.pension_id = "P001"
    /\ result.error = "Transaction rejected due to fraud detection"
    /\ result.fraud_check.error = "Pension details not found"
    /\ Len(scheduled_deposits) = 2
    /\ Len(transactions) = 2
    /\ now > 0

(***************************************************************************)
(* C13: every connection opened during a tool call, the one opened by      *)
(* init_database inside get_db_connection included, has been closed when   *)
(* the call returns, on every path: no connection is open between calls.   *)
(***************************************************************************)
C13_ConnectionsClosedOnReturn ==
    \A i \in DOMAIN result.connections : result.connections[i] = "closed"

(***************************************************************************)
(* C14: after a successful scheduleRecurringDeposit call the stored        *)
(* next_deposit_date is today + 30 days for the frequency 'monthly',       *)
(* today + 7 days for 'weekly' and today + 30 days for any other           *)
(* frequency.                                                              *)
(***************************************************************************)
C14_NextDepositDateByFrequency ==
    [][ ScheduleSucceeded =>
          LET today == Date(now)
              expected == IF result'.frequency = "monthly" THEN today + 30
                          ELSE IF result'.frequency = "weekly" THEN today + 7
                          ELSE today + 30
              after == ActiveRows(scheduled_deposits', result'.customer_id, result'.pension_id)
          IN  /\ after # {}
              /\ \A i \in after : scheduled_deposits'[i].next_deposit_date = expected
              /\ result'.next_deposit_date = expected ]_vars

\* on the second day a 'daily' schedule has replaced the 'monthly' one of
\* the first day on the same account: its date is 30 days after the second day
C14_Witness ==
    /\ result.tool = "scheduleRecurringDeposit"
    /\ result.success
    /\ result.action = "updated"
    /\ result.frequency = "daily"
    /\ result.at = now
    /\ Date(now) = 1
    /\ Len(transactions) = 2
    /\ transactions[1].scheduled_date = 30
    /\ \E i \in DOMAIN scheduled_deposits :
          /\ scheduled_deposits[i].schedule_id = result.schedule_id
          /\ scheduled_deposits[i].frequency = "daily"
          /\ scheduled_deposits[i].next_deposit_date = 31

\* the rows of pension_details that are active pension records of the customer
ActiveRecords(customer_id) ==
    { i \in DOMAIN pension_details :
        /\ customer_id \in Customers
        /\ pension_details[i].customer_id = customer_id
        /\ pension_details[i].status = "active" }

\* the step is the call s = <<customer_id, pension_id, amount, frequency>>
ScheduleCall(s) ==
    ScheduleRecurringDeposit(s[1], s[2], s[3], s[4], {"none"},
                             ArgumentsMaxTxns, ArgumentsMaxIndicators)

(***************************************************************************)
(* C15: scheduleRecurringDeposit resolves an omitted account id to the id  *)
(* of the customer's active pension record and an omitted amount to the    *)
(* expected monthly amount of that record, and keeps the arguments that    *)
(* were given; the fraud evaluation and the writes to scheduled_deposits   *)
(* and transactions use the resolved values; when the resolution fails     *)
(* (unknown customer, no active pension) the call returns that error, no   *)
(* fraud evaluation is made and nothing is written.                        *)
(***************************************************************************)
C15_ResolutionBeforeFraudCheck ==
    [][ \A s \in ArgumentsSchedules :
          ( (s[2] = None \/ s[3] = << >>) /\ ScheduleCall(s) )
          => IF ActiveRecords(s[1]) = {}
             THEN /\ result'.success = FALSE
                  /\ result'.error \in {"Customer not found", "No active pension found"}
                  /\ result'.fraud_check.present = FALSE
                  /\ UNCHANGED tables
             ELSE /\ \E i \in ActiveRecords(s[1]) :
                        /\ result'.pension_id =
                              IF s[2] = None THEN pension_details[i].pension_id ELSE s[2]
                        /\ result'.amount =
                              IF s[3] = << >> THEN <<pension_details[i].monthly_amount>> ELSE s[3]
                  /\ result'.success
                        = ~Flagged(s[1], result'.pension_id, result'.amount[1])
                  /\ ~result'.success
                        => \E existing \in HistorySelections(fraud_indicators, s[1], now) :
                             result'.fraud_check =
                               CheckFraudInternal(pension_details, scheduled_deposits,
                                                  transactions, fraud_indicators, now, s[1],
                                                  result'.pension_id, result'.amount[1],
                                                  existing).verdict
                  /\ result'.success
                        => /\ \E i \in DOMAIN scheduled_deposits' :
                                /\ scheduled_deposits'[i].schedule_id = result'.schedule_id
                                /\ scheduled_deposits'[i].customer_id = s[1]
                                /\ scheduled_deposits'[i].pension_id = result'.pension_id
                                /\ scheduled_deposits'[i].amount = result'.amount[1]
                           /\ transactions'[Len(transactions')].pension_id = result'.pension_id
                           /\ transactions'[Len(transactions')].amount = result'.amount[1]
                           /\ Len(transactions') = Len(transactions) + 1 ]_vars

\* with the first account of the customer closed, the call without account
\* and amount has scheduled the expected amount of the second account
C15_Witness ==
    /\ pension_details = ClosedAccounts
    /\ result.tool = "scheduleRecurringDeposit"
    /\ result.success
    /\ result.frequency = "monthly"
    /\ result.pension_id = "P004"
    /\ result.amount = <<180>>
    /\ Len(scheduled_deposits) = 1
    /\ scheduled_deposits[1].pension_id = "P004"
    /\ scheduled_deposits[1].amount = 180
    /\ transactions[Len(transactions)].amount = 180

(***************************************************************************)
(* C16: a checkFraudStatus or scheduleRecurringDeposit call on an existing *)
(* account raises nothing and returns a result with a success flag and,    *)
(* when that is false, an error message, for every stored expected amount  *)
(* of the account, 0 included.                                             *)
(***************************************************************************)
C16_ExistingAccountNeverRaises ==
    ( /\ result.tool \in {"checkFraudStatus", "scheduleRecurringDeposit"}
      /\ AccountExists(result.customer_id, result.pension_id) )
    => /\ result.raised = ""
       /\ result.success \/ result.error # ""

(***************************************************************************)
(* C17: when the deviation |a - E| / E is greater than 0.2 and at most 0.5 *)
(* and no other rule fires (a >= 100, at most 3 transactions in the        *)
(* trailing 24 hours, fewer than 2 high-severity indicators in the         *)
(* trailing 7 days), the verdict holds exactly one indicator,              *)
(* 'unusual_amount' of severity 'medium', is_fraudulent is false, the      *)
(* recommendation is APPROVE, nothing is written to fraud_indicators, and  *)
(* a scheduling call with that amount succeeds.                            *)
(***************************************************************************)
C17_MediumDeviationIsInformational ==
    [][ ( /\ EvaluationStep
          /\ AccountExists(result'.customer_id, result'.pension_id)
          /\ 5 * Abs(result'.amount[1] - ExpectedAmount(result'.customer_id, result'.pension_id))
                > ExpectedAmount(result'.customer_id, result'.pension_id)
          /\ 2 * Abs(result'.amount[1] - ExpectedAmount(result'.customer_id, result'.pension_id))
                <= ExpectedAmount(result'.customer_id, result'.pension_id)
          /\ result'.amount[1] >= 100
          /\ Cardinality(TrailingTransactions(result'.customer_id)) <= 3
          /\ Cardinality(TrailingHighIndicators(result'.customer_id)) < 2 )
        => /\ fraud_indicators' = fraud_indicators
           /\ CheckStep =>
                 /\ result'.fraud_check.fraud_indicators =
                       << Indicator("unusual_amount",
                                    <<result'.amount[1],
                                      ExpectedAmount(result'.customer_id, result'.pension_id)>>,
                                    "medium") >>
                 /\ result'.fraud_check.fraud_score = 1
                 /\ result'.fraud_check.is_fraudulent = FALSE
                 /\ result'.fraud_check.recommendation = "APPROVE"
           /\ ScheduleStep =>
                 /\ result'.success
                 /\ Len(transactions') = Len(transactions) + 1 ]_vars

\* 120 was scheduled on the account that expects 180, and 180 is then
\* approved on the account that expects 120 (a deviation of exactly 0.5)
\* while one high-severity indicator is on record for the customer
C17_Witness ==
    /\ result.tool = "checkFraudStatus"
    /\ result.pension_id = "P001"
    /\ result.amount = <<180>>
    /\ result.fraud_check.recommendation = "APPROVE"
    /\ result.fraud_check.fraud_indicators
          = << Indicator("unusual_amount", <<180, 120>>, "medium") >>
    /\ ExpectedAmount("C001", "P004") = 180
    /\ Len(transactions) = 1
    /\ transactions[1].pension_id = "P004"
    /\ transactions[1].amount = 120
    /\ Len(fraud_indicators) = 1

\* 1 when the condition holds, else 0
Count(condition) == IF condition THEN 1 ELSE 0

(***************************************************************************)
(* C18: on every fraud check of an existing account the deviation, floor,  *)
(* velocity and history rules are each evaluated, whatever the earlier     *)
(* rules found: the verdict lists the indicator of every rule that fired,  *)
(* in the order of the rules, and fraud_score is the length of the list.   *)
(* The history rule fires when its query finds 2 or more rows and then     *)
(* adds 2 or more indicators logged before; it adds none when fewer than 2 *)
(* high-severity indicators were logged in the trailing 7 days.            *)
(***************************************************************************)
C18_RulesAccumulate ==
    [][ ( /\ EvaluationStep
          /\ AccountExists(result'.customer_id, result'.pension_id)
          /\ result'.fraud_check.present )
        => LET a == result'.amount[1]
               E == ExpectedAmount(result'.customer_id, result'.pension_id)
               n == Cardinality(TrailingTransactions(result'.customer_id))
               h == Cardinality(TrailingHighIndicators(result'.customer_id))
               r == Cardinality(RecentHighIndicators(fraud_indicators,
                                                     result'.customer_id, now))
               list == result'.fraud_check.fraud_indicators
               d == Count(5 * Abs(a - E) > E)
               k == d + Count(a < 100) + Count(n > 3)
           IN  /\ result'.fraud_check.fraud_score = Len(list)
               /\ Len(list) >= k
               /\ 2 * Abs(a - E) > E
                     => list[1] = Indicator("unusual_amount", <<a, E>>, "high")
               /\ (5 * Abs(a - E) > E /\ 2 * Abs(a - E) <= E)
                     => list[1] = Indicator("unusual_amount", <<a, E>>, "medium")
               /\ a < 100
                     => list[d + 1] = Indicator("suspicious_low_amount", <<a>>, "high")
               /\ n > 3
                     => list[k] = Indicator("velocity_check", <<n>>, "high")
               /\ r >= 2 => Len(list) >= k + 2
               /\ (h < 2 \/ r < 2) => Len(list) = k
               /\ \A i \in (k + 1)..Len(list) :
                     WasLogged(result'.customer_id, list[i]) ]_vars

\* a check in which all four rules fired: the amount 59 against an expected
\* 120, with 4 transactions in the last 24 hours and indicators on record
C18_Witness ==
    /\ result.tool = "checkFraudStatus"
    /\ result.amount = <<59>>
    /\ result.at = now
    /\ Cardinality(TrailingTransactions("C001")) = 4
    /\ result.fraud_check.fraud_score = 5
    /\ result.fraud_check.fraud_indicators[1].type = "unusual_amount"
    /\ result.fraud_check.fraud_indicators[2].type = "suspicious_low_amount"
    /\ result.fraud_check.fraud_indicators[3].type = "velocity_check"
    /\ Len(fraud_indicators) = 7

\* the indicator a fraud_indicators row holds
IndicatorOfRow(row) == Indicator(row.indicator_type, row.description, row.severity)

(***************************************************************************)
(* C19: when the history rule fires, each high-severity indicator logged   *)
(* for the customer within the trailing 7 days appears in the indicator    *)
(* list of the verdict, however many there are: an indicator logged m      *)
(* times is listed at least m times.                                       *)
(***************************************************************************)
C19_HistoryResurfacesEveryIndicator ==
    [][ ( /\ EvaluationStep
          /\ AccountExists(result'.customer_id, result'.pension_id)
          /\ result'.fraud_check.present
          /\ Cardinality(RecentHighIndicators(fraud_indicators,
                                              result'.customer_id, now)) >= 2 )
        => LET list == result'.fraud_check.fraud_indicators
               logged == TrailingHighIndicators(result'.customer_id)
           IN  \A j \in logged :
                 Cardinality({ i \in DOMAIN list :
                                 list[i] = IndicatorOfRow(fraud_indicators[j]) })
                   >= Cardinality({ l \in logged :
                                      IndicatorOfRow(fraud_indicators[l])
                                        = IndicatorOfRow(fraud_indicators[j]) }) ]_vars

\* scheduled_deposits tables to compare the stored one with: the empty
\* table, and the stored table with one more active schedule for the pair
OtherSchedules(customer_id, pension_id) ==
    { << >>,
      InsertSchedule(scheduled_deposits, Len(scheduled_deposits) + 1, customer_id,
                     pension_id, ExpectedAmount(customer_id, pension_id), "monthly",
                     NextDeposit("monthly", now)) }

(***************************************************************************)
(* C20: the fraud verdict does not depend on scheduled_deposits: in two    *)
(* databases that differ in that table only (with and without an active    *)
(* schedule for the account), checkFraudStatus with the same arguments     *)
(* returns the same is_fraudulent, severity, indicators, score and         *)
(* recommendation, and logs the same rows.                                 *)
(***************************************************************************)
C20_VerdictIgnoresSchedules ==
    \A c \in Checks :
        \A existing \in HistorySelections(fraud_indicators, c[1], now) :
            \A scheds \in OtherSchedules(c[1], c[2]) :
                CheckFraudInternal(pension_details, scheds, transactions,
                                   fraud_indicators, now, c[1], c[2], c[3], existing)
                  = CheckFraudInternal(pension_details, scheduled_deposits, transactions,
                                       fraud_indicators, now, c[1], c[2], c[3], existing)

\* a check approved for an account that has an active schedule, with the
\* verdict the same check gets from a database without schedules
C20_Witness ==
    /\ result.tool = "checkFraudStatus"
    /\ result.at = now
    /\ result.pension_id = "P001"
    /\ result.fraud_check.recommendation = "APPROVE"
    /\ ActiveRows(scheduled_deposits, "C001", "P001") # {}
    /\ ActiveRows(scheduled_deposits, "C001", "P004") # {}
    /\ \E existing \in HistorySelections(fraud_indicators, "C001", now) :
          result.fraud_check
            = CheckFraudInternal(pension_details, << >>, transactions, fraud_indicators,
                                 now, "C001", "P001", result.amount[1], existing).verdict

(***************************************************************************)
(* C21: when two scheduleRecurringDeposit calls for the same (customer,    *)
(* account) run at the same time with their statements interleaved, each   *)
(* selecting the existing schedule before the other has committed, they    *)
(* never leave two active scheduled_deposits rows for the pair.            *)
(***************************************************************************)
C21_ConcurrentCallsKeepOneActiveSchedule ==
    \A i \in DOMAIN pension_details :
        Cardinality(ActiveRows(scheduled_deposits, pension_details[i].customer_id,
                               pension_details[i].pension_id)) <= 1

\* table old is a prefix of table new
IsPrefix(old, new) ==
    /\ Len(old) <= Len(new)
    /\ SubSeq(new, 1, Len(old)) = old

(***************************************************************************)
(* C22: fraud_indicators and transactions are append-only under            *)
(* getPensionDetails, checkFraudStatus, scheduleRecurringDeposit and       *)
(* getScheduledDeposits: no call changes or deletes a committed row, so    *)
(* both tables only grow.                                                  *)
(***************************************************************************)
C22_IndicatorsAndTransactionsAppendOnly ==
    [][ /\ IsPrefix(fraud_indicators, fraud_indicators')
        /\ IsPrefix(transactions, transactions') ]_vars

\* both tables hold rows, a second rejection has been logged after the first
\* and the schedules have been listed since
C22_Witness ==
    /\ result.tool = "getScheduledDeposits"
    /\ result.count = 1
    /\ Len(transactions) = 2
    /\ Len(fraud_indicators) = 4
    /\ fraud_indicators[3].detected_at > fraud_indicators[1].detected_at

(***************************************************************************)
(* The reporting tools of finanace_status_tools.py.  They read a database  *)
(* of their own, seeded with the same customers and one financial_status   *)
(* row per customer, and write nothing.                                    *)
(***************************************************************************)
StatusTools ==
    { "getFinancialStatus", "checkBillSufficiency", "getUpcomingBills",
      "getEmergencyFundStatus", "getIncomeStatus", "getMonthlyIncome",
      "getTaxTips", "getMonthlySpending" }

\* SELECT name, email FROM customers WHERE customer_id = ?
CustomerFound(customer_id) == customer_id \in Customers

\* SELECT ... FROM financial_status WHERE customer_id = ?
FinancialStatusFound(customer_id) == customer_id \in Customers

\* the error a reporting tool returns, "" when it returns success
StatusToolError(tool, customer_id) ==
    CASE tool = "getFinancialStatus" ->
             IF ~CustomerFound(customer_id) THEN "Customer not found"
             ELSE IF ~FinancialStatusFound(customer_id)
                  THEN "Financial status not found" ELSE ""
      [] tool \in {"checkBillSufficiency", "getEmergencyFundStatus"} ->
             IF ~FinancialStatusFound(customer_id)
             THEN "Financial status not found" ELSE ""
      [] OTHER -> ""

\* one call of a reporting tool
StatusTool(tool, customer_id) ==
    /\ result' = [CallResult(tool, customer_id, None, << >>, "")
                    EXCEPT !.success = (StatusToolError(tool, customer_id) = ""),
                           !.error = StatusToolError(tool, customer_id),
                           !.connections = Connections(1)]
    /\ UNCHANGED <<inflight, now, pension_details, scheduled_deposits, transactions,
                   fraud_indicators>>

ReportsCustomers == { "C001", UnknownCustomer }

NextReports ==
    \/ NextAppend
    \/ \E tool \in StatusTools, c \in ReportsCustomers : StatusTool(tool, c)

SpecReports == Init /\ [][NextReports]_vars

\* the tools that take a customer id and only report
ReportingTools == StatusTools \cup { "getScheduledDeposits" }

(***************************************************************************)
(* C23: getScheduledDeposits, getUpcomingBills, getIncomeStatus,           *)
(* getMonthlyIncome, getTaxTips, getMonthlySpending, getFinancialStatus,   *)
(* checkBillSufficiency and getEmergencyFundStatus report a customer id    *)
(* that does not exist as a structured error: success is false, an error   *)
(* is set and nothing is raised.                                           *)
(***************************************************************************)
C23_UnknownCustomerIsStructuredError ==
    (/\ result.tool \in ReportingTools
     /\ result.customer_id = UnknownCustomer)
        => /\ result.raised = ""
           /\ result.success = FALSE
           /\ result.error # ""

(***************************************************************************)
(* initializeDatabase: remove the database file, then init_database().     *)
(* The removal is attempted inside a try whose failure is only noted in    *)
(* debug_info; whether it succeeds is decided by the file system.          *)
(***************************************************************************)
\* the pension_details rows init_database inserts into a new file
SeedPensions ==
    << PensionRow("P001", "C001", 2500, "active"),
       PensionRow("P002", "C002", 3200, "active"),
       PensionRow("P003", "C003", 2800, "active") >>

\* initializeDatabase(); removed: os.remove(DB_PATH) succeeded
InitializeDatabase(removed) ==
    /\ IF removed \/ InitDatabase = "closed"
       THEN /\ pension_details' = SeedPensions
            /\ scheduled_deposits' = IF removed THEN << >> ELSE scheduled_deposits
            /\ transactions' = IF removed THEN << >> ELSE transactions
            /\ fraud_indicators' = IF removed THEN << >> ELSE fraud_indicators
       ELSE UNCHANGED <<pension_details, scheduled_deposits, transactions,
                        fraud_indicators>>
    /\ result' = [CallResult("initializeDatabase", None, None, << >>, "")
                    EXCEPT !.success = TRUE,
                           !.action = IF removed THEN "deleted_old_db" ELSE "delete_error",
                           !.connections = << IF removed THEN "closed" ELSE InitDatabase,
                                              "closed" >>]
    /\ UNCHANGED <<inflight, now>>

ResetChecks == { <<"C001", "P001", 59>> }

ResetSchedules == { <<"C001", None, << >>, "monthly">> }

NextReset ==
    \/ NextFor(ResetChecks, ResetSchedules, {"none"}, MaxTime, MaxTxns, MaxIndicators)
    \/ \E removed \in BOOLEAN : InitializeDatabase(removed)

SpecReset == Init /\ [][NextReset]_vars

\* the database as a new file holds it
IsReset ==
    /\ pension_details = SeedPensions
    /\ scheduled_deposits = << >>
    /\ transactions = << >>
    /\ fraud_indicators = << >>

(***************************************************************************)
(* C24: whenever initializeDatabase returns success=true the database has  *)
(* been reset: the seeded customers with their active pensions and empty   *)
(* scheduled_deposits, transactions and fraud_indicators, whatever the     *)
(* tables held before the call and also when the old file could not be     *)
(* removed.                                                                *)
(***************************************************************************)
C24_InitializeDatabaseResets ==
    [][ (\E removed \in BOOLEAN : InitializeDatabase(removed) /\ result'.success)
            => IsReset' ]_vars

(***************************************************************************)
(* SpecScore: a database in which C001 has scheduled four deposits today.  *)
(* C001's account is checked with a low amount, so that all four rules can *)
(* fire in one evaluation; C002's account is checked with a slightly       *)
(* deviating amount and scheduled.                                         *)
(***************************************************************************)
RECURSIVE Scheduled(_)
\* the tables after n calls scheduleRecurringDeposit('C001','P001',120,
\* 'monthly') at time 0 on the empty tables
Scheduled(n) ==
    IF n = 0 THEN [scheds |-> << >>, txns |-> << >>]
    ELSE LET w == Scheduled(n - 1)
         IN ScheduleWrites(PensionTable(180), w.scheds, w.txns, 0,
                           "C001", "P001", 120, "monthly", "none")

InitScore ==
    /\ now = 0
    /\ pension_details = PensionTable(180)
    /\ scheduled_deposits = Scheduled(VelocityLimit + 1).scheds
    /\ transactions = Scheduled(VelocityLimit + 1).txns
    /\ fraud_indicators = << >>
    /\ result = NoCall
    /\ inflight = NoCalls

ScoreChecks ==
    { <<"C001", "P001", 59>>, <<"C002", "P002", 3100>> }

ScoreSchedules == { <<"C002", None, << >>, "monthly">>, <<"C002", "P002", <<3100>>, "weekly">> }

NextScore ==
    NextFor(ScoreChecks, ScoreSchedules, {"none"},
            ScoreMaxTime, ScoreMaxTxns, ScoreMaxIndicators)

SpecScore == InitScore /\ [][NextScore]_vars

\* the verdict lists an indicator of high severity
HasHighIndicator(verdict) ==
    \E i \in DOMAIN verdict.fraud_indicators :
        verdict.fraud_indicators[i].severity = "high"

(***************************************************************************)
(* C25: in every verdict returned for an existing account, recommendation  *)
(* is REJECT iff is_fraudulent iff the list holds a high-severity          *)
(* indicator iff the overall severity is 'high'; an APPROVE verdict has    *)
(* severity 'low' and a fraud_score of at most 1; the overall severity is  *)
(* never 'medium'; fraud_score never exceeds 6.                            *)
(***************************************************************************)
C25_VerdictFieldsAgree ==
    LET v == result.fraud_check IN
    (v.present /\ v.success) =>
        /\ v.recommendation \in {"REJECT", "APPROVE"}
        /\ (v.recommendation = "REJECT") <=> v.is_fraudulent
        /\ v.is_fraudulent <=> HasHighIndicator(v)
        /\ HasHighIndicator(v) <=> (v.severity = "high")
        /\ v.recommendation = "APPROVE" => (v.severity = "low" /\ v.fraud_score <= 1)
        /\ v.severity # "medium"
        /\ v.fraud_score <= 6

\* all four rules fired at once: deviation, low amount, velocity and three
\* rows of history
C25_Witness ==
    /\ result.tool = "checkFraudStatus"
    /\ result.fraud_check.present
    /\ result.fraud_check.recommendation = "REJECT"
    /\ result.fraud_check.fraud_score = 6

\* the transactions of the customer dated in the 24 hours that end at w
\* (transaction_date > w - 1 day, as the velocity rule counts them)
WindowTransactions(txns, customer_id, w) ==
    { i \in DOMAIN txns :
        /\ txns[i].customer_id = customer_id
        /\ txns[i].transaction_date > w - Days(VelocityWindowDays)
        /\ txns[i].transaction_date <= w }

\* the customers that own a row of the table
CustomersOf(txns) == { txns[i].customer_id : i \in DOMAIN txns }

(***************************************************************************)
(* C26: starting from an empty transactions table, after any sequence of   *)
(* sequential scheduleRecurringDeposit calls the number of transactions    *)
(* rows equals the number of calls that returned success=true (a call      *)
(* adds one row exactly when it returns success, and nothing else adds or  *)
(* removes a row), and no customer has more than VelocityLimit + 1 = 4     *)
(* transactions dated within one trailing 24-hour window, whenever the     *)
(* window ends.                                                            *)
(***************************************************************************)
C26_TransactionsCountSuccessesAndVelocityCap ==
    [][ /\ ScheduleStep =>
              Len(transactions') = Len(transactions) + Count(result'.success)
        /\ ~ScheduleStep => transactions' = transactions
        /\ \A c \in CustomersOf(transactions'), w \in 0..now' :
              Cardinality(WindowTransactions(transactions', c, w)) <= VelocityLimit + 1
      ]_vars

\* a fifth deposit of the customer was accepted once the first had left the
\* window, which again holds four
C26_Witness ==
    /\ result.tool = "scheduleRecurringDeposit"
    /\ result.success
    /\ result.customer_id = "C001"
    /\ Len(SelectSeq(transactions, LAMBDA r : r.customer_id = "C001")) = 5
    /\ Cardinality(WindowTransactions(transactions, "C001", now)) = VelocityLimit + 1

\* the rows logged for the customer
LoggedFor(customer_id) ==
    SelectSeq(fraud_indicators, LAMBDA r : r.customer_id = customer_id)

\* the rows are those of one check that the deviation rule and the floor
\* flagged, and of nothing else
OneDoubleRejection(rows) ==
    /\ Len(rows) = 2
    /\ rows[1].detected_at = rows[2].detected_at
    /\ rows[1].indicator_type = "unusual_amount" /\ rows[1].severity = "high"
    /\ rows[2].indicator_type = "suspicious_low_amount" /\ rows[2].severity = "high"

\* the evaluation of the step is for an existing account, with its expected
\* amount and without the velocity rule firing
PlainRequestStep ==
    /\ EvaluationStep
    /\ AccountExists(result'.customer_id, result'.pension_id)
    /\ result'.amount = << ExpectedAmount(result'.customer_id, result'.pension_id) >>
    /\ Cardinality(TrailingTransactions(result'.customer_id)) <= VelocityLimit

(***************************************************************************)
(* C27: a single rejected request can lock a customer out.  One check      *)
(* whose amount is more than 50% away from the expected amount and below   *)
(* 100 persists two high-severity indicators, and the next fraud check or  *)
(* scheduling call of the customer within 7 days yields REJECT through the *)
(* history rule even with the expected amount and no velocity indicator;   *)
(* a single rejection that left one high-severity indicator has no such    *)
(* effect.                                                                 *)
(***************************************************************************)
C27_OneRejectionLocksOut ==
    [][ PlainRequestStep =>
          LET rows == LoggedFor(result'.customer_id) IN
          /\ ( /\ OneDoubleRejection(rows)
               /\ rows[1].detected_at > now - Days(HistoryWindowDays) )
                => /\ result'.fraud_check.recommendation = "REJECT"
                   /\ result'.fraud_check.fraud_score = 2
                   /\ \A i \in 1..2 :
                        WasLogged(result'.customer_id,
                                  result'.fraud_check.fraud_indicators[i])
          /\ ( Len(rows) = 1 /\ rows[1].severity = "high" )
                => result'.fraud_check.recommendation # "REJECT"
      ]_vars

\* the rows the step appended to fraud_indicators
AppendedRows == SubSeq(fraud_indicators', Len(fraud_indicators) + 1, Len(fraud_indicators'))

(***************************************************************************)
(* C28: the history lockout sustains itself.  While the customer has 2 or  *)
(* more high-severity indicators in the trailing 7 days, every fraud check *)
(* of the customer is rejected and appends at least 2 further              *)
(* high-severity rows for the customer, detected at the time of the check; *)
(* so no check returns APPROVE as long as consecutive checks are less than *)
(* 7 days apart.                                                           *)
(***************************************************************************)
C28_LockoutSustainsItself ==
    [][ ( /\ EvaluationStep
          /\ AccountExists(result'.customer_id, result'.pension_id)
          /\ Cardinality(TrailingHighIndicators(result'.customer_id)) >= 2 )
        => /\ result'.fraud_check.recommendation = "REJECT"
           /\ IsPrefix(fraud_indicators, fraud_indicators')
           /\ Cardinality({ i \in DOMAIN AppendedRows :
                              /\ AppendedRows[i].customer_id = result'.customer_id
                              /\ AppendedRows[i].severity = "high"
                              /\ AppendedRows[i].detected_at = now' }) >= 2
      ]_vars

\* scheduleRecurringDeposit returned the rejection of the fraud check
ScheduleRejected ==
    /\ ScheduleStep
    /\ result'.error = "Transaction rejected due to fraud detection"

InitClosed ==
    /\ EmptyTables
    /\ pension_details = ClosedAccounts

ClosedChecks == { <<"C001", "P001", 120>> }

ClosedSchedules ==
    { <<"C001", "P001", <<120>>, "monthly">>,
      <<"C001", "P001", << >>, "monthly">>,
      <<"C001", None, << >>, "monthly">>,
      <<"C002", None, << >>, "monthly">>,
      <<"C002", "P002", <<2500>>, "weekly">> }

NextClosed ==
    NextFor(ClosedChecks, ClosedSchedules, {"none"}, MaxTime, MaxTxns, MaxIndicators)

SpecClosed == InitClosed /\ [][NextClosed]_vars

\* the customer has the account and its status is not 'active'
NotActive(customer_id, pension_id) ==
    \E i \in DOMAIN pension_details :
        /\ pension_details[i].customer_id = customer_id
        /\ pension_details[i].pension_id = pension_id
        /\ pension_details[i].status # "active"

(***************************************************************************)
(* C30: scheduleRecurringDeposit creates or updates a schedule and appends *)
(* a transaction only for an account whose status is 'active': a call that *)
(* names an account of the customer that is not active never returns       *)
(* success=true and writes neither table, whether the account and the      *)
(* amount are passed or defaulted.                                         *)
(***************************************************************************)
C30_OnlyActiveAccountsAreScheduled ==
    [][ ( /\ ScheduleStep
          /\ NotActive(result'.customer_id, result'.pension_id) )
        => /\ ~result'.success
           /\ UNCHANGED <<scheduled_deposits, transactions>> ]_vars

====
